---- MODULE Spec2Model ----
(***************************************************************************)
(* Symbol classification of crates/ide_db/src/defs.rs:                     *)
(* Definition::from_token / from_node / module, NameClass::classify /      *)
(* classify_lifetime and NameRefClass::classify / classify_lifetime.       *)
(*                                                                         *)
(* The functions are pure: a syntax node is given by the structural facts  *)
(* the code asks of it (kind of the parent, the nearest ancestor path, the *)
(* enclosing attribute, ...) and the semantic database by the answer it    *)
(* gives to each query on that node (an Option).  Every operator returns   *)
(* a record [out, calls]: the value returned and the set of functions and  *)
(* semantic queries the call invoked on its way.  A second specification,  *)
(* SpecCalls, runs the two classifiers call by call on a stack of frames.  *)
(***************************************************************************)
EXTENDS Naturals, Sequences, FiniteSets

VARIABLES op, inp, out, calls, stack, nested

vars == <<op, inp, out, calls, stack, nested>>

\* Number of distinct handles of each kind the semantic database hands out.
MaxId == 2

\* Deepest nesting of token trees above a token.
MaxNest == 2

Ids == 1..MaxId

-----------------------------------------------------------------------------
\* Option<T>
None == [tag |-> "None"]
Some(x) == [tag |-> "Some", val |-> x]
IsSome(o) == o.tag = "Some"
Opt(S) == {None} \cup {Some(x) : x \in S}

\* What a call returns: its value and the calls it made.
Ret(o, c) == [out |-> o, calls |-> c]

\* Record b laid over record a.
Over(a, b) == [k \in DOMAIN a \cup DOMAIN b |-> IF k \in DOMAIN b THEN b[k] ELSE a[k]]

-----------------------------------------------------------------------------
\* enum Definition: a variant, the variant of the wrapped handle where the
\* handle is itself an enum (Adt, GenericParam), and the handle.
Def(t, s, i) == [tag |-> t, sub |-> s, id |-> i]

DefinitionTags ==
    {"Macro", "Field", "Module", "Function", "Adt", "Variant", "Const", "Static",
     "Trait", "TypeAlias", "BuiltinType", "SelfType", "Local", "GenericParam", "Label"}

AdtKinds == {"Struct", "Union", "Enum"}
GenericParamKinds == {"TypeParam", "LifetimeParam", "ConstParam"}

SubsOf(t) ==
    IF t = "Adt" THEN AdtKinds
    ELSE IF t = "GenericParam" THEN GenericParamKinds
    ELSE {""}

Definitions == UNION {{Def(t, s, i) : s \in SubsOf(t), i \in Ids} : t \in DefinitionTags}

\* hir::ModuleDef
ModuleDefKinds ==
    {"Module", "Function", "Adt", "Variant", "Const", "Static", "Trait", "TypeAlias",
     "BuiltinType"}
MDef(k, s, i) == [md |-> k, sub |-> s, id |-> i]
ModuleDefs == UNION {{MDef(k, s, i) : s \in SubsOf(k), i \in Ids} : k \in ModuleDefKinds}

\* hir::AssocItem
AssocItemKinds == {"Function", "Const", "TypeAlias"}

\* hir::PathResolution
PRDef(d) == [pr |-> "Def", def |-> d]
PRAssoc(k, i) == [pr |-> "AssocItem", ai |-> k, id |-> i]
PROther(k, i) == [pr |-> k, id |-> i]
PathResolutions ==
    {PRDef(d) : d \in ModuleDefs}
    \cup {PRAssoc(k, i) : k \in AssocItemKinds, i \in Ids}
    \cup {PROther(k, i) : k \in {"Local", "TypeParam", "Macro", "SelfType", "ConstParam"},
                          i \in Ids}

\* hir::MacroDef::kind of the macro handles: the first is an attribute macro,
\* the second a derive, any other a declarative macro.
MacroKind(m) == IF m = 1 THEN "Attr" ELSE IF m = 2 THEN "Derive" ELSE "Declarative"

\* hir::Crate::root_module
RootModule(k) == (k % MaxId) + 1

\* impl From<ModuleDef> for Definition
DefinitionFromModuleDef(d) ==
    CASE d.md = "Module" -> Def("Module", "", d.id)
      [] d.md = "Function" -> Def("Function", "", d.id)
      [] d.md = "Adt" -> Def("Adt", d.sub, d.id)
      [] d.md = "Variant" -> Def("Variant", "", d.id)
      [] d.md = "Const" -> Def("Const", "", d.id)
      [] d.md = "Static" -> Def("Static", "", d.id)
      [] d.md = "Trait" -> Def("Trait", "", d.id)
      [] d.md = "TypeAlias" -> Def("TypeAlias", "", d.id)
      [] d.md = "BuiltinType" -> Def("BuiltinType", "", d.id)

\* impl From<PathResolution> for Definition
DefinitionFromPathResolution(r) ==
    CASE r.pr = "Def" -> DefinitionFromModuleDef(r.def)
      [] r.pr = "AssocItem" -> DefinitionFromModuleDef(MDef(r.ai, "", r.id))
      [] r.pr = "Local" -> Def("Local", "", r.id)
      [] r.pr = "TypeParam" -> Def("GenericParam", "TypeParam", r.id)
      [] r.pr = "Macro" -> Def("Macro", "", r.id)
      [] r.pr = "SelfType" -> Def("SelfType", "", r.id)
      [] r.pr = "ConstParam" -> Def("GenericParam", "ConstParam", r.id)

-----------------------------------------------------------------------------
\* enum NameClass
NCDefinition(d) == [cls |-> "Definition", def |-> d]
NCConstReference(d) == [cls |-> "ConstReference", def |-> d]
NCPatFieldShorthand(l, f) == [cls |-> "PatFieldShorthand", local_def |-> l, field_ref |-> f]

\* enum NameRefClass
NRDefinition(d) == [cls |-> "Definition", def |-> d]
NRFieldShorthand(l, f) == [cls |-> "FieldShorthand", local_ref |-> l, field_ref |-> f]

-----------------------------------------------------------------------------
\* NameRefClass::classify, rule 5: the name of an associated-type binding.
\* items are the trait's own associated items, in declaration order.
FirstAlias_Last(items, text) ==
    LET hits == {i \in 1..Len(items) : items[i].ai = "TypeAlias" /\ items[i].name = text}
    IN IF hits = {} THEN None
       ELSE Some(items[CHOOSE i \in hits : \A j \in hits : i >= j].id)

FirstAlias(items, text) ==
    LET hits == {i \in 1..Len(items) : items[i].ai = "TypeAlias" /\ items[i].name = text}
    IN IF hits = {} THEN None
       ELSE Some(items[CHOOSE i \in hits : \A j \in hits : i <= j].id)

AssocTypeRule(nr, c) ==
    IF ~nr.hasPath THEN Ret(None, c)
    ELSE IF ~IsSome(nr.pathRes) THEN Ret(None, c \cup {"resolve_path"})
    ELSE IF nr.pathRes.val.pr = "Def" /\ nr.pathRes.val.def.md = "Trait"
         THEN LET ty == FirstAlias(nr.traitItems, nr.text)
              IN IF IsSome(ty)
                 THEN Ret(Some(NRDefinition(Def("TypeAlias", "", ty.val))),
                          c \cup {"resolve_path", "Trait::items"})
                 ELSE Ret(None, c \cup {"resolve_path", "Trait::items"})
    ELSE Ret(None, c \cup {"resolve_path"})

\* NameRefClass::classify, rule 6: the nearest ancestor path.
\* nr.attr is "none" when no attribute encloses the top path, "own" when the
\* top path is the enclosing attribute's path, "other" when it is not.
PathRuleAttr_AnyQualifier(nr, c) ==
    IF nr.attr = "own" /\ nr.isTop
    THEN Ret(IF IsSome(nr.pathAsMacro) /\ MacroKind(nr.pathAsMacro.val) = "Attr"
             THEN Some(NRDefinition(Def("Macro", "", nr.pathAsMacro.val)))
             ELSE None,
             c \cup {"resolve_path_as_macro"})
    ELSE IF nr.attr = "other"
    THEN Ret(None, c)
    ELSE Ret(IF IsSome(nr.pathRes)
             THEN Some(NRDefinition(DefinitionFromPathResolution(nr.pathRes.val)))
             ELSE None,
             c \cup {"resolve_path"})

PathRuleAttr(nr, c) ==
    IF nr.attr = "own" /\ nr.isTop
    THEN Ret(IF IsSome(nr.pathAsMacro) /\ MacroKind(nr.pathAsMacro.val) = "Attr"
             THEN Some(NRDefinition(Def("Macro", "", nr.pathAsMacro.val)))
             ELSE None,
             c \cup {"resolve_path_as_macro"})
    ELSE IF nr.attr = "own"
    THEN IF ~IsSome(nr.pathRes) THEN Ret(None, c \cup {"resolve_path"})
         ELSE IF nr.pathRes.val.pr = "Def" /\ nr.pathRes.val.def.md = "Module"
              THEN Ret(Some(NRDefinition(Def("Module", "", nr.pathRes.val.def.id))),
                       c \cup {"resolve_path"})
              ELSE Ret(None, c \cup {"resolve_path"})
    ELSE IF nr.attr = "other"
    THEN Ret(None, c)
    ELSE Ret(IF IsSome(nr.pathRes)
             THEN Some(NRDefinition(DefinitionFromPathResolution(nr.pathRes.val)))
             ELSE None,
             c \cup {"resolve_path"})

PathRule_AttributeFirst(nr, c) ==
    IF nr.attr = "other" THEN Ret(None, c)
    ELSE IF ~nr.qualified /\ nr.inMacroCall
    THEN IF IsSome(nr.macroCall)
         THEN Ret(Some(NRDefinition(Def("Macro", "", nr.macroCall.val))),
                  c \cup {"resolve_macro_call"})
         ELSE PathRuleAttr(nr, c \cup {"resolve_macro_call"})
    ELSE PathRuleAttr(nr, c)

PathRule(nr, c) ==
    IF ~nr.qualified /\ nr.inMacroCall
    THEN IF IsSome(nr.macroCall)
         THEN Ret(Some(NRDefinition(Def("Macro", "", nr.macroCall.val))),
                  c \cup {"resolve_macro_call"})
         ELSE PathRuleAttr(nr, c \cup {"resolve_macro_call"})
    ELSE PathRuleAttr(nr, c)

\* NameRefClass::classify, rule 7: the name of an extern-crate declaration.
ExternCrateRule(nr, c) ==
    IF nr.parent # "ExternCrate" THEN Ret(None, c)
    ELSE IF ~IsSome(nr.externCrate) THEN Ret(None, c \cup {"resolve_extern_crate"})
    ELSE Ret(Some(NRDefinition(Def("Module", "", RootModule(nr.externCrate.val)))),
             c \cup {"resolve_extern_crate"})

\* NameRefClass::classify, rule 3: what a resolved record-construction field
\* classifies to.  rf is the field and the local of the same name, if any.
RecordFieldClass_DropsLocal(rf) ==
    NRDefinition(Def("Field", "", rf.field))

RecordFieldClass(rf) ==
    IF IsSome(rf.local)
    THEN NRFieldShorthand(rf.local.val, rf.field)
    ELSE NRDefinition(Def("Field", "", rf.field))

\* NameRefClass::classify
NameRefClass_classify(nr) ==
    IF ~nr.hasParent THEN Ret(None, {})
    ELSE
    LET c1 == IF nr.parent = "MethodCallExpr" THEN {"resolve_method_call"} ELSE {}
        c2 == c1 \cup (IF nr.parent = "FieldExpr" THEN {"resolve_field"} ELSE {})
        c3 == c2 \cup (IF nr.forFieldName THEN {"resolve_record_field"} ELSE {})
        c4 == c3 \cup (IF nr.parent = "RecordPatField" THEN {"resolve_record_pat_field"}
                       ELSE {})
    IN
    IF nr.parent = "MethodCallExpr" /\ IsSome(nr.method)
    THEN Ret(Some(NRDefinition(Def("Function", "", nr.method.val))), c1)
    ELSE IF nr.parent = "FieldExpr" /\ IsSome(nr.field)
    THEN Ret(Some(NRDefinition(Def("Field", "", nr.field.val))), c2)
    ELSE IF nr.forFieldName /\ IsSome(nr.recField)
    THEN Ret(Some(RecordFieldClass(nr.recField.val)), c3)
    ELSE IF nr.parent = "RecordPatField" /\ IsSome(nr.patField)
    THEN Ret(Some(NRDefinition(Def("Field", "", nr.patField.val))), c4)
    ELSE IF nr.parent = "AssocTypeArg" /\ nr.assocIsName
    THEN AssocTypeRule(nr, c4)
    ELSE IF nr.hasPath
    THEN PathRule(nr, c4)
    ELSE ExternCrateRule(nr, c4)

\* NameRefClass::classify_lifetime
\* lt.declared: the parent is a lifetime-parameter declaration and the
\* lifetime it declares is this node.
NameRefClass_classify_lifetime(lt) ==
    IF ~lt.hasParent THEN Ret(None, {})
    ELSE IF lt.parent \in {"BreakExpr", "ContinueExpr"}
    THEN Ret(IF IsSome(lt.label) THEN Some(NRDefinition(Def("Label", "", lt.label.val)))
             ELSE None,
             {"resolve_label"})
    ELSE IF lt.parent \in {"LifetimeArg", "SelfParam", "TypeBound", "WherePred", "RefType"}
    THEN Ret(IF IsSome(lt.lifetimeParam)
             THEN Some(NRDefinition(Def("GenericParam", "LifetimeParam", lt.lifetimeParam.val)))
             ELSE None,
             {"resolve_lifetime_param"})
    ELSE IF ~(lt.parent = "LifetimeParam" /\ lt.declared)
    THEN Ret(IF IsSome(lt.lifetimeParam)
             THEN Some(NRDefinition(Def("GenericParam", "LifetimeParam", lt.lifetimeParam.val)))
             ELSE None,
             {"resolve_lifetime_param"})
    ELSE Ret(None, {})

-----------------------------------------------------------------------------
\* NameClass::defined
NameClass_defined(c) ==
    IF c.cls = "Definition" THEN Some(c.def)
    ELSE IF c.cls = "ConstReference" THEN None
    ELSE Some(Def("Local", "", c.local_def))

\* The declaration kinds NameClass::classify resolves by sema.to_def alone,
\* and the Definition each wraps the looked-up handle in.
ToDefParents ==
    {"SelfParam", "RecordField", "Module", "Struct", "Union", "Enum", "Trait", "Static",
     "Variant", "Fn", "Const", "TypeAlias", "Macro", "TypeParam", "ConstParam"}

ToDefDefinition_StaticAsConst(parent, i) ==
    CASE parent = "SelfParam" -> Def("Local", "", i)
      [] parent = "RecordField" -> Def("Field", "", i)
      [] parent \in {"Struct", "Union", "Enum"} -> Def("Adt", parent, i)
      [] parent = "Fn" -> Def("Function", "", i)
      [] parent \in {"Static", "Const"} -> Def("Const", "", i)
      [] parent \in {"TypeParam", "ConstParam"} -> Def("GenericParam", parent, i)
      [] OTHER -> Def(parent, "", i)

ToDefDefinition(parent, i) ==
    CASE parent = "SelfParam" -> Def("Local", "", i)
      [] parent = "RecordField" -> Def("Field", "", i)
      [] parent = "Module" -> Def("Module", "", i)
      [] parent = "Struct" -> Def("Adt", "Struct", i)
      [] parent = "Union" -> Def("Adt", "Union", i)
      [] parent = "Enum" -> Def("Adt", "Enum", i)
      [] parent = "Trait" -> Def("Trait", "", i)
      [] parent = "Static" -> Def("Static", "", i)
      [] parent = "Variant" -> Def("Variant", "", i)
      [] parent = "Fn" -> Def("Function", "", i)
      [] parent = "Const" -> Def("Const", "", i)
      [] parent = "TypeAlias" -> Def("TypeAlias", "", i)
      [] parent = "Macro" -> Def("Macro", "", i)
      [] parent = "TypeParam" -> Def("GenericParam", "TypeParam", i)
      [] parent = "ConstParam" -> Def("GenericParam", "ConstParam", i)

\* NameClass::classify, the ast::Rename arm.
\* n.renameParent is the kind of the rename clause's parent; n.utPath,
\* n.utSegment, n.utNameRef say how far use_tree.path()?.segment()?.name_ref()?
\* gets; n.nameRef is that name-ref and n.isSelf whether it is `self`;
\* n.enclFound says whether the use-tree two levels up has a path whose
\* segment has a name-ref, and n.enclNameRef is that name-ref.
RenamedNameRef_NoClimb(n) == n.nameRef

RenamedNameRef(n) ==
    IF n.isSelf /\ n.enclFound THEN n.enclNameRef ELSE n.nameRef

\* What the rename clause of a use-tree classifies to, r being the
\* classification of the renamed name-ref.
RenameResult(r) ==
    IF ~IsSome(r) THEN None
    ELSE IF r.val.cls = "Definition"
    THEN Some(NCDefinition(r.val.def))
    ELSE Some(NCDefinition(Def("Field", "", r.val.field_ref)))

RenameArm(n, c) ==
    IF n.renameParent = "UseTree"
    THEN IF ~(n.utPath /\ n.utSegment /\ n.utNameRef) THEN Ret(None, c)
         ELSE LET r == NameRefClass_classify(RenamedNameRef(n))
                  cc == c \cup {"NameRefClass::classify"} \cup r.calls
              IN Ret(RenameResult(r.out), cc)
    ELSE IF n.renameParent # "ExternCrate" THEN Ret(None, c)
    ELSE IF ~IsSome(n.externCrate) THEN Ret(None, c \cup {"resolve_extern_crate"})
    ELSE Ret(Some(NCDefinition(Def("Module", "", RootModule(n.externCrate.val)))),
             c \cup {"resolve_extern_crate"})

\* NameClass::classify, the ast::IdentPat arm.
\* n.inRecordPatField: the pattern's parent is a record-pattern field;
\* n.rpfHasNameRef: that field writes its field name.
IdentPatArm_IgnoresFieldName(n, c) ==
    IF ~IsSome(n.toDef) THEN Ret(None, c \cup {"to_def"})
    ELSE IF n.inRecordPatField /\ IsSome(n.patField)
    THEN Ret(Some(NCPatFieldShorthand(n.toDef.val, n.patField.val)),
             c \cup {"to_def", "resolve_record_pat_field"})
    ELSE Ret(Some(NCDefinition(Def("Local", "", n.toDef.val))), c \cup {"to_def"})

IdentPatArm(n, c) ==
    IF ~IsSome(n.toDef) THEN Ret(None, c \cup {"to_def"})
    ELSE IF n.inRecordPatField /\ ~n.rpfHasNameRef /\ IsSome(n.patField)
    THEN Ret(Some(NCPatFieldShorthand(n.toDef.val, n.patField.val)),
             c \cup {"to_def", "resolve_record_pat_field"})
    ELSE Ret(Some(NCDefinition(Def("Local", "", n.toDef.val))),
             c \cup {"to_def"}
               \cup (IF n.inRecordPatField /\ ~n.rpfHasNameRef
                     THEN {"resolve_record_pat_field"} ELSE {}))

\* NameClass::classify, the arms that are one sema.to_def lookup.
ToDefArm(n, c) ==
    IF IsSome(n.toDef)
    THEN Ret(Some(NCDefinition(ToDefDefinition(n.parent, n.toDef.val))), c \cup {"to_def"})
    ELSE Ret(None, c \cup {"to_def"})

\* NameClass::classify
NameClass_classify(n) ==
    IF ~n.hasParent THEN Ret(None, {})
    ELSE
    LET c == IF n.parent = "IdentPat" THEN {"resolve_bind_pat_to_const"} ELSE {}
    IN
    IF n.parent = "IdentPat" /\ IsSome(n.constRes)
    THEN Ret(Some(NCConstReference(DefinitionFromModuleDef(n.constRes.val))), c)
    ELSE IF n.parent = "Rename" THEN RenameArm(n, c)
    ELSE IF n.parent = "IdentPat" THEN IdentPatArm(n, c)
    ELSE IF n.parent \in ToDefParents THEN ToDefArm(n, c)
    ELSE Ret(None, c)

\* NameClass::classify_lifetime
NameClass_classify_lifetime(lt) ==
    IF ~lt.hasParent THEN Ret(None, {})
    ELSE IF lt.parent = "LifetimeParam"
    THEN Ret(IF IsSome(lt.toDef)
             THEN Some(NCDefinition(Def("GenericParam", "LifetimeParam", lt.toDef.val)))
             ELSE None,
             {"to_def"})
    ELSE IF lt.parent = "Label"
    THEN Ret(IF IsSome(lt.toDef) THEN Some(NCDefinition(Def("Label", "", lt.toDef.val)))
             ELSE None,
             {"to_def"})
    ELSE Ret(None, {})

-----------------------------------------------------------------------------
\* Definition::from_node.  node.kind is the kind of the syntax node, node.ctx
\* what the classifiers ask of it.
FromNodeName_FieldFirst(node) ==
    LET r == NameClass_classify(node.ctx)
        cc == {"NameClass::classify"} \cup r.calls
    IN IF ~IsSome(r.out) THEN Ret(<<>>, cc)
       ELSE IF r.out.val.cls \in {"Definition", "ConstReference"}
       THEN Ret(<<r.out.val.def>>, cc)
       ELSE Ret(<<Def("Field", "", r.out.val.field_ref),
                  Def("Local", "", r.out.val.local_def)>>, cc)

FromNodeName(node) ==
    LET r == NameClass_classify(node.ctx)
        cc == {"NameClass::classify"} \cup r.calls
    IN IF ~IsSome(r.out) THEN Ret(<<>>, cc)
       ELSE IF r.out.val.cls \in {"Definition", "ConstReference"}
       THEN Ret(<<r.out.val.def>>, cc)
       ELSE Ret(<<Def("Local", "", r.out.val.local_def),
                  Def("Field", "", r.out.val.field_ref)>>, cc)

FromNodeNameRef(node) ==
    LET r == NameRefClass_classify(node.ctx)
        cc == {"NameRefClass::classify"} \cup r.calls
    IN IF ~IsSome(r.out) THEN Ret(<<>>, cc)
       ELSE IF r.out.val.cls = "Definition"
       THEN Ret(<<r.out.val.def>>, cc)
       ELSE Ret(<<Def("Local", "", r.out.val.local_ref),
                  Def("Field", "", r.out.val.field_ref)>>, cc)

FromNodeLifetime_Both(node) ==
    LET x == NameClass_classify_lifetime(node.ctx)
        y == NameRefClass_classify_lifetime(node.ctx)
        cc == {"NameClass::classify_lifetime", "NameRefClass::classify_lifetime"}
                \cup x.calls \cup y.calls
        defs == IF IsSome(x.out) /\ IsSome(NameClass_defined(x.out.val))
                THEN <<NameClass_defined(x.out.val).val>> ELSE <<>>
        refs == IF IsSome(y.out) /\ y.out.val.cls = "Definition"
                THEN <<y.out.val.def>> ELSE <<>>
    IN Ret(defs \o refs, cc)

FromNodeLifetime(node) ==
    LET x == NameClass_classify_lifetime(node.ctx)
        c1 == {"NameClass::classify_lifetime"} \cup x.calls
    IN IF IsSome(x.out)
       THEN LET def == NameClass_defined(x.out.val)
            IN Ret(IF IsSome(def) THEN <<def.val>> ELSE <<>>,
                   c1 \cup {"NameClass::defined"})
       ELSE LET y == NameRefClass_classify_lifetime(node.ctx)
                c2 == c1 \cup {"NameRefClass::classify_lifetime"} \cup y.calls
            IN IF IsSome(y.out) /\ y.out.val.cls = "Definition"
               THEN Ret(<<y.out.val.def>>, c2)
               ELSE Ret(<<>>, c2)

Definition_from_node(node) ==
    IF node.kind = "Name" THEN FromNodeName(node)
    ELSE IF node.kind = "NameRef" THEN FromNodeNameRef(node)
    ELSE IF node.kind = "Lifetime" THEN FromNodeLifetime(node)
    ELSE Ret(<<>>, {})

-----------------------------------------------------------------------------
\* Definition::from_token.  t.chain is the token's ancestor chain, the
\* parent first; t.parentNode the parent as from_node sees it.

\* parent.ancestors().find_map(ast::TokenTree::cast): the index of the
\* nearest token tree of the chain, 0 when there is none.
NearestTokenTree(chain) ==
    LET hits == {i \in 1..Len(chain) : chain[i] = "TokenTree"}
    IN IF hits = {} THEN 0 ELSE CHOOSE i \in hits : \A j \in hits : i <= j

\* .and_then(|tt| tt.parent_meta()).and_then(|meta| meta.parent_attr()):
\* whether the nearest token tree is the argument list of an attribute.
AttrOfToken(chain) ==
    LET i == NearestTokenTree(chain)
    IN /\ i > 0
       /\ i + 2 <= Len(chain)
       /\ chain[i + 1] = "Meta"
       /\ chain[i + 2] = "Attr"

\* helpers::try_resolve_derive_input: the path of a derive's input under the
\* identifier, resolved; nothing for an attribute that is not a derive.
try_resolve_derive_input(t) ==
    IF t.attrIsDerive THEN t.deriveRes ELSE None

Definition_from_token_FallsThrough(t) ==
    IF ~t.hasParent THEN Ret(<<>>, {})
    ELSE IF t.isIdent /\ AttrOfToken(t.chain) /\ IsSome(try_resolve_derive_input(t))
    THEN Ret(<<DefinitionFromPathResolution(try_resolve_derive_input(t).val)>>,
             {"try_resolve_derive_input"})
    ELSE LET r == Definition_from_node(t.parentNode)
         IN Ret(r.out,
                (IF t.isIdent /\ AttrOfToken(t.chain) THEN {"try_resolve_derive_input"}
                 ELSE {}) \cup {"from_node"} \cup r.calls)

Definition_from_token_NoIdentCheck(t) ==
    IF ~t.hasParent THEN Ret(<<>>, {})
    ELSE IF AttrOfToken(t.chain)
    THEN LET r == try_resolve_derive_input(t)
         IN Ret(IF IsSome(r) THEN <<DefinitionFromPathResolution(r.val)>> ELSE <<>>,
                {"try_resolve_derive_input"})
    ELSE LET r == Definition_from_node(t.parentNode)
         IN Ret(r.out, {"from_node"} \cup r.calls)

Definition_from_token(t) ==
    IF ~t.hasParent THEN Ret(<<>>, {})
    ELSE IF t.isIdent /\ AttrOfToken(t.chain)
    THEN LET r == try_resolve_derive_input(t)
         IN Ret(IF IsSome(r) THEN <<DefinitionFromPathResolution(r.val)>> ELSE <<>>,
                {"try_resolve_derive_input"})
    ELSE LET r == Definition_from_node(t.parentNode)
         IN Ret(r.out, {"from_node"} \cup r.calls)

-----------------------------------------------------------------------------
\* Definition::module.  db holds the answers of the database: the module of
\* a macro (optional), the parent of a module (optional), the aggregate that
\* owns a field, the module of each kind of aggregate, and the module of any
\* other entity.
VariantDefKinds == {"Struct", "Union", "Variant"}

Definition_module_OwnModule(d, db) ==
    CASE d.tag = "Macro" -> db.macroModule
      [] d.tag = "Module" -> Some(d.id)
      [] d.tag = "Field" -> Some(db.variantDefModule[db.fieldParentDef.kind])
      [] d.tag = "BuiltinType" -> None
      [] OTHER -> Some(db.itModule)

Definition_module(d, db) ==
    CASE d.tag = "Macro" -> db.macroModule
      [] d.tag = "Module" -> db.moduleParent
      [] d.tag = "Field" -> Some(db.variantDefModule[db.fieldParentDef.kind])
      [] d.tag = "BuiltinType" -> None
      [] OTHER -> Some(db.itModule)

-----------------------------------------------------------------------------
\* The inputs: syntax nodes as the parser builds them, with every answer the
\* database can give to the queries the code makes on them.  A query the code
\* cannot reach on a node keeps its default answer.

Names == {"A", "B"}

\* ---- name-refs
NRBase ==
    [hasParent |-> TRUE, parent |-> "Other", forFieldName |-> FALSE,
     assocIsName |-> FALSE, text |-> "A",
     hasPath |-> FALSE, qualified |-> FALSE, inMacroCall |-> FALSE, isTop |-> FALSE,
     attr |-> "none",
     method |-> None, field |-> None, recField |-> None, patField |-> None,
     pathRes |-> None, traitItems |-> <<>>, macroCall |-> None, pathAsMacro |-> None,
     externCrate |-> None]

\* A path that is a macro call's path is a top path and not an attribute's.
PathShapes ==
    {s \in [hasPath : {TRUE}, qualified : BOOLEAN, inMacroCall : BOOLEAN,
            isTop : BOOLEAN, attr : {"none", "own", "other"}] :
        s.inMacroCall => (s.isTop /\ s.attr # "own")}

PathOracles(s) ==
    [macroCall : IF ~s.qualified /\ s.inMacroCall THEN Opt(Ids) ELSE {None},
     pathAsMacro : IF s.attr = "own" /\ s.isTop THEN Opt(Ids) ELSE {None},
     pathRes : IF s.attr = "none" \/ (s.attr = "own" /\ ~s.isTop)
               THEN Opt(PathResolutions) ELSE {None}]

PathCtxs == UNION {{Over(s, o) : o \in PathOracles(s)} : s \in PathShapes}
NoPath == [hasPath |-> FALSE]

RecFields == {[field |-> f, local |-> l] : f \in Ids, l \in Opt(Ids)}

\* Parents whose rule answers.
HitParents ==
    {[parent |-> "MethodCallExpr", method |-> Some(i)] : i \in Ids}
    \cup {[parent |-> "FieldExpr", field |-> Some(i)] : i \in Ids}
    \cup {[parent |-> "RecordExprField", forFieldName |-> TRUE, recField |-> Some(r)] :
            r \in RecFields}
    \cup {[parent |-> "PathSegment", forFieldName |-> TRUE, recField |-> Some(r),
           hasPath |-> TRUE, isTop |-> TRUE] : r \in RecFields}
    \cup {[parent |-> "RecordPatField", patField |-> Some(i)] : i \in Ids}

\* Parents whose rule does not answer: the later rules decide.
MissParents ==
    {[parent |-> k] :
        k \in {"MethodCallExpr", "FieldExpr", "RecordPatField", "AssocTypeArg",
               "ExternCrate", "Other"}}
    \cup {[parent |-> "RecordExprField", forFieldName |-> TRUE]}

MissSegments ==
    {[parent |-> "PathSegment", forFieldName |-> b] : b \in BOOLEAN}

TraitItems == [ai : {"TypeAlias", "Function"}, id : Ids, name : Names]
ItemSeqs == {<<>>} \cup {<<a>> : a \in TraitItems} \cup {<<a, b>> : a, b \in TraitItems}

AssocCtxs ==
    {[parent |-> "AssocTypeArg", assocIsName |-> TRUE]}
    \cup {[parent |-> "AssocTypeArg", assocIsName |-> TRUE, hasPath |-> TRUE,
           pathRes |-> r] :
            r \in {x \in Opt(PathResolutions) :
                     ~(IsSome(x) /\ x.val.pr = "Def" /\ x.val.def.md = "Trait")}}
    \cup {[parent |-> "AssocTypeArg", assocIsName |-> TRUE, hasPath |-> TRUE,
           pathRes |-> Some(PRDef(MDef("Trait", "", i))), traitItems |-> its,
           text |-> tx] :
            i \in Ids, its \in ItemSeqs, tx \in Names}

NameRefCtxs ==
    {Over(NRBase, [hasParent |-> FALSE])}
    \cup {Over(NRBase, h) : h \in HitParents}
    \cup {Over(NRBase, a) : a \in AssocCtxs}
    \cup {Over(Over(NRBase, m), pc) : m \in MissParents \cup MissSegments, pc \in PathCtxs}
    \cup {Over(NRBase, m) : m \in MissParents}
    \cup {Over(NRBase, [parent |-> "ExternCrate", externCrate |-> Some(k)]) : k \in Ids}

\* The name-refs of a use-tree's path: a segment of a path outside any
\* attribute and macro call.  `self` is a path of its own.
UseNameRefs ==
    {Over(NRBase, [parent |-> "PathSegment", hasPath |-> TRUE, qualified |-> q,
                   isTop |-> t, pathRes |-> r]) :
        q \in BOOLEAN, t \in BOOLEAN, r \in Opt(PathResolutions)}

SelfNameRefs ==
    {Over(NRBase, [parent |-> "PathSegment", hasPath |-> TRUE, isTop |-> TRUE,
                   pathRes |-> r]) : r \in Opt(PathResolutions)}

\* ---- names
NBase ==
    [hasParent |-> TRUE, parent |-> "Other", constRes |-> None, toDef |-> None,
     inRecordPatField |-> FALSE, rpfHasNameRef |-> FALSE, patField |-> None,
     renameParent |-> "Other", utPath |-> FALSE, utSegment |-> FALSE,
     utNameRef |-> FALSE, nameRef |-> NRBase, isSelf |-> FALSE, enclFound |-> FALSE,
     enclNameRef |-> NRBase, externCrate |-> None]

IdentPatCtxs ==
    {[parent |-> "IdentPat", constRes |-> c, toDef |-> d, inRecordPatField |-> FALSE] :
        c \in Opt(ModuleDefs), d \in Opt(Ids)}
    \cup {[parent |-> "IdentPat", constRes |-> c, toDef |-> d, inRecordPatField |-> TRUE,
           rpfHasNameRef |-> h, patField |-> f] :
            c \in Opt(ModuleDefs), d \in Opt(Ids), h \in BOOLEAN, f \in Opt(Ids)}

RenameCtxs ==
    {[parent |-> "Rename", renameParent |-> "Other"]}
    \cup {[parent |-> "Rename", renameParent |-> "ExternCrate", externCrate |-> k] :
            k \in Opt(Ids)}
    \cup {[parent |-> "Rename", renameParent |-> "UseTree", utPath |-> a, utSegment |-> b,
           utNameRef |-> FALSE] : a \in BOOLEAN, b \in {FALSE}}
    \cup {[parent |-> "Rename", renameParent |-> "UseTree", utPath |-> TRUE,
           utSegment |-> TRUE, utNameRef |-> FALSE]}
    \cup {[parent |-> "Rename", renameParent |-> "UseTree", utPath |-> TRUE,
           utSegment |-> TRUE, utNameRef |-> TRUE, nameRef |-> r] : r \in UseNameRefs}
    \cup {[parent |-> "Rename", renameParent |-> "UseTree", utPath |-> TRUE,
           utSegment |-> TRUE, utNameRef |-> TRUE, nameRef |-> r, isSelf |-> TRUE] :
            r \in SelfNameRefs}
    \cup {[parent |-> "Rename", renameParent |-> "UseTree", utPath |-> TRUE,
           utSegment |-> TRUE, utNameRef |-> TRUE, nameRef |-> r, isSelf |-> TRUE,
           enclFound |-> TRUE, enclNameRef |-> e] :
            r \in SelfNameRefs, e \in UseNameRefs}

NameCtxs ==
    {Over(NBase, [hasParent |-> FALSE])}
    \cup {Over(NBase, [parent |-> k, toDef |-> d]) :
            k \in ToDefParents \cup {"Other"}, d \in Opt(Ids)}
    \cup {Over(NBase, c) : c \in IdentPatCtxs \cup RenameCtxs}

\* ---- lifetimes
LifetimeParents ==
    {"LifetimeParam", "Label", "BreakExpr", "ContinueExpr", "LifetimeArg", "SelfParam",
     "TypeBound", "WherePred", "RefType", "Other"}

LifetimeCtxs ==
    {[hasParent |-> FALSE, parent |-> "Other", declared |-> FALSE, toDef |-> None,
      label |-> None, lifetimeParam |-> None]}
    \cup {c \in [hasParent : {TRUE}, parent : LifetimeParents, declared : BOOLEAN,
                 toDef : Opt(Ids), label : Opt(Ids), lifetimeParam : Opt(Ids)] :
            c.declared => c.parent = "LifetimeParam"}

\* ---- nodes
Node(k, c) == [kind |-> k, ctx |-> c]
OtherNode == Node("Other", [hasParent |-> TRUE])
TokenTreeNode == Node("TokenTree", [hasParent |-> TRUE])

Nodes ==
    {Node("Name", c) : c \in NameCtxs}
    \cup {Node("NameRef", c) : c \in NameRefCtxs}
    \cup {Node("Lifetime", c) : c \in LifetimeCtxs}
    \cup {OtherNode, TokenTreeNode}

\* ---- tokens
TBase ==
    [hasParent |-> TRUE, isIdent |-> FALSE, chain |-> <<"Other">>,
     parentNode |-> OtherNode, attrIsDerive |-> FALSE, deriveRes |-> None]

RECURSIVE Nest(_)
Nest(k) == IF k = 0 THEN <<>> ELSE <<"TokenTree">> \o Nest(k - 1)

\* What holds the outermost token tree: an attribute's meta item, a meta item
\* without attribute, a macro call, a macro definition.
TokenTreeOwners == {<<"Meta", "Attr">>, <<"Meta">>, <<"MacroCall">>, <<"MacroRules">>}

\* A token inside a token tree is a child of that token tree: token trees
\* hold tokens and token trees only.
TokenTreeTokens ==
    {Over(TBase, [isIdent |-> b, chain |-> Nest(k) \o w, parentNode |-> TokenTreeNode,
                  attrIsDerive |-> d, deriveRes |-> r]) :
        b \in BOOLEAN, k \in 1..MaxNest, w \in TokenTreeOwners,
        d \in BOOLEAN, r \in Opt(PathResolutions)}

NodeTokens ==
    {Over(TBase, [isIdent |-> b, chain |-> <<n.kind>>, parentNode |-> n]) :
        b \in BOOLEAN, n \in Nodes \ {TokenTreeNode}}

Tokens ==
    {Over(TBase, [hasParent |-> FALSE, isIdent |-> b]) : b \in BOOLEAN}
    \cup TokenTreeTokens \cup NodeTokens

\* ---- definitions and the database behind Definition::module
DbBase ==
    [macroModule |-> None, moduleParent |-> None,
     fieldParentDef |-> [kind |-> "Struct", id |-> 1],
     variantDefModule |-> [k \in VariantDefKinds |-> 1], itModule |-> 1]

DbsOf(d) ==
    IF d.tag = "Macro" THEN {Over(DbBase, [macroModule |-> m]) : m \in Opt(Ids)}
    ELSE IF d.tag = "Module" THEN {Over(DbBase, [moduleParent |-> m]) : m \in Opt(Ids)}
    ELSE IF d.tag = "Field"
    THEN {Over(DbBase, [fieldParentDef |-> [kind |-> k, id |-> i], variantDefModule |-> f,
                        itModule |-> m]) :
            k \in VariantDefKinds, i \in Ids, f \in [VariantDefKinds -> Ids], m \in Ids}
    ELSE {Over(DbBase, [itModule |-> m]) : m \in Ids}

DefInputs == UNION {{[def |-> d, db |-> b] : b \in DbsOf(d)} : d \in Definitions}

Inputs ==
    {[what |-> "token", tok |-> t] : t \in Tokens}
    \cup {[what |-> "node", node |-> n] : n \in Nodes}
    \cup {[what |-> "definition", d |-> x] : x \in DefInputs}

-----------------------------------------------------------------------------
Init ==
    /\ inp \in Inputs
    /\ op = "input"
    /\ out = None
    /\ calls = {}
    /\ stack = <<>>
    /\ nested = 0

Apply(name, r) ==
    /\ op' = name
    /\ out' = r.out
    /\ calls' = r.calls
    /\ UNCHANGED <<inp, stack, nested>>

FromToken ==
    /\ op = "input" /\ inp.what = "token"
    /\ Apply("from_token", Definition_from_token(inp.tok))

FromNode ==
    /\ op = "input" /\ inp.what = "node"
    /\ Apply("from_node", Definition_from_node(inp.node))

ClassifyName ==
    /\ op = "input" /\ inp.what = "node" /\ inp.node.kind = "Name"
    /\ Apply("NameClass::classify", NameClass_classify(inp.node.ctx))

ClassifyNameRef ==
    /\ op = "input" /\ inp.what = "node" /\ inp.node.kind = "NameRef"
    /\ Apply("NameRefClass::classify", NameRefClass_classify(inp.node.ctx))

ClassifyLifetimeDef ==
    /\ op = "input" /\ inp.what = "node" /\ inp.node.kind = "Lifetime"
    /\ Apply("NameClass::classify_lifetime", NameClass_classify_lifetime(inp.node.ctx))

ClassifyLifetimeRef ==
    /\ op = "input" /\ inp.what = "node" /\ inp.node.kind = "Lifetime"
    /\ Apply("NameRefClass::classify_lifetime", NameRefClass_classify_lifetime(inp.node.ctx))

Module ==
    /\ op = "input" /\ inp.what = "definition"
    /\ Apply("module", Ret(Definition_module(inp.d.def, inp.d.db), {}))

Next ==
    \/ FromToken
    \/ FromNode
    \/ ClassifyName
    \/ ClassifyNameRef
    \/ ClassifyLifetimeDef
    \/ ClassifyLifetimeRef
    \/ Module

Spec == Init /\ [][Next]_vars

-----------------------------------------------------------------------------
\* The classifiers call by call.  stack holds the frames of the calls in
\* progress, the innermost last: the function, the node it classifies and
\* where it stands ("start", "wait" for a nested call, "resume" once the
\* nested call has returned into out).  nested counts the classification
\* calls made from inside a classification call.
Frame(f, c, p) == [fn |-> f, ctx |-> c, pc |-> p]
Top == stack[Len(stack)]
Pop == SubSeq(stack, 1, Len(stack) - 1)

\* NameClass::classify gets to its call of NameRefClass::classify: the parent
\* is a rename clause of a use-tree whose path's segment has a name-ref.
ReachesNestedCall(n) ==
    /\ n.hasParent
    /\ n.parent = "Rename"
    /\ n.renameParent = "UseTree"
    /\ n.utPath /\ n.utSegment /\ n.utNameRef

InitCalls ==
    /\ inp \in {[what |-> "node", node |-> n] :
                  n \in {Node("Name", c) : c \in NameCtxs}
                        \cup {Node("NameRef", c) : c \in NameRefCtxs}}
    /\ op = "input"
    /\ out = None
    /\ calls = {}
    /\ stack = <<>>
    /\ nested = 0

CallNameClass ==
    /\ op = "input" /\ stack = <<>> /\ inp.node.kind = "Name"
    /\ stack' = <<Frame("NameClass::classify", inp.node.ctx, "start")>>
    /\ op' = "running"
    /\ UNCHANGED <<inp, out, calls, nested>>

CallNameRefClass ==
    /\ op = "input" /\ stack = <<>> /\ inp.node.kind = "NameRef"
    /\ stack' = <<Frame("NameRefClass::classify", inp.node.ctx, "start")>>
    /\ op' = "running"
    /\ UNCHANGED <<inp, out, calls, nested>>

NameClassCallsNameRefClass ==
    /\ stack # <<>>
    /\ Top.fn = "NameClass::classify" /\ Top.pc = "start"
    /\ ReachesNestedCall(Top.ctx)
    /\ stack' = Append([stack EXCEPT ![Len(stack)].pc = "wait"],
                       Frame("NameRefClass::classify", RenamedNameRef(Top.ctx), "start"))
    /\ nested' = nested + 1
    /\ calls' = calls \cup {"NameRefClass::classify"}
    /\ UNCHANGED <<op, inp, out>>

NameClassReturns ==
    /\ stack # <<>>
    /\ Top.fn = "NameClass::classify" /\ Top.pc = "start"
    /\ ~ReachesNestedCall(Top.ctx)
    /\ out' = NameClass_classify(Top.ctx).out
    /\ calls' = calls \cup NameClass_classify(Top.ctx).calls
    /\ stack' = Pop
    /\ op' = IF Len(stack) = 1 THEN Top.fn ELSE op
    /\ UNCHANGED <<inp, nested>>

NameRefClassReturns ==
    /\ stack # <<>>
    /\ Top.fn = "NameRefClass::classify" /\ Top.pc = "start"
    /\ out' = NameRefClass_classify(Top.ctx).out
    /\ calls' = calls \cup NameRefClass_classify(Top.ctx).calls
    /\ stack' = IF Len(stack) = 1 THEN <<>>
                ELSE [Pop EXCEPT ![Len(stack) - 1].pc = "resume"]
    /\ op' = IF Len(stack) = 1 THEN Top.fn ELSE op
    /\ UNCHANGED <<inp, nested>>

NameClassResumes_Retry ==
    /\ stack # <<>>
    /\ Top.fn = "NameClass::classify" /\ Top.pc = "resume"
    /\ IF ~IsSome(out) /\ nested < 2
       THEN /\ stack' = Append([stack EXCEPT ![Len(stack)].pc = "wait"],
                               Frame("NameRefClass::classify", Top.ctx.nameRef, "start"))
            /\ nested' = nested + 1
            /\ UNCHANGED <<op, out>>
       ELSE /\ out' = RenameResult(out)
            /\ stack' = Pop
            /\ op' = IF Len(stack) = 1 THEN Top.fn ELSE op
            /\ UNCHANGED nested
    /\ UNCHANGED <<inp, calls>>

NameClassResumes ==
    /\ stack # <<>>
    /\ Top.fn = "NameClass::classify" /\ Top.pc = "resume"
    /\ out' = RenameResult(out)
    /\ stack' = Pop
    /\ op' = IF Len(stack) = 1 THEN Top.fn ELSE op
    /\ UNCHANGED <<inp, calls, nested>>

NextCalls ==
    \/ CallNameClass
    \/ CallNameRefClass
    \/ NameClassCallsNameRefClass
    \/ NameClassReturns
    \/ NameRefClassReturns
    \/ NameClassResumes

\* The calls are synchronous: a call in progress takes its next step.
SpecCalls == InitCalls /\ [][NextCalls]_vars /\ WF_vars(NextCalls)

-----------------------------------------------------------------------------
\* The token of a from_token state, the node of a from_node or classify state.
Tok == inp.tok
ClassifiedNode == IF inp.what = "token" THEN inp.tok.parentNode ELSE inp.node
Ctx == ClassifiedNode.ctx

\* The token lies in the argument list of a derive attribute: some token tree
\* above it is the token tree of a derive attribute's meta item.
InDeriveArgs(t) ==
    /\ t.attrIsDerive
    /\ \E i \in 1..Len(t.chain) :
         /\ t.chain[i] = "TokenTree"
         /\ i + 2 <= Len(t.chain)
         /\ t.chain[i + 1] = "Meta"
         /\ t.chain[i + 2] = "Attr"

\* The token's own parent is that argument list.
DirectlyInAttrArgs(t) ==
    /\ Len(t.chain) >= 3
    /\ t.chain[1] = "TokenTree"
    /\ t.chain[2] = "Meta"
    /\ t.chain[3] = "Attr"

Classifiers == {"NameClass::classify", "NameRefClass::classify"}

\* What from_token returns when it hands the token to the derive-input resolver.
ResolverYield(t) ==
    IF t.attrIsDerive /\ IsSome(t.deriveRes)
    THEN <<DefinitionFromPathResolution(t.deriveRes.val)>>
    ELSE <<>>

-----------------------------------------------------------------------------
\* C1: from_token and from_node return at most two Definitions; two are
\* returned only when the node classifies as NameClass::PatFieldShorthand or
\* NameRefClass::FieldShorthand, and then the first is a Local and the second
\* a Field.
C1_AtMostTwo ==
    op \in {"from_token", "from_node"} =>
        /\ Len(out) <= 2
        /\ Len(out) = 2 =>
             /\ out[1].tag = "Local"
             /\ out[2].tag = "Field"
             /\ op = "from_token" => "from_node" \in calls
             /\ \/ /\ ClassifiedNode.kind = "Name"
                   /\ IsSome(NameClass_classify(Ctx).out)
                   /\ NameClass_classify(Ctx).out.val.cls = "PatFieldShorthand"
                \/ /\ ClassifiedNode.kind = "NameRef"
                   /\ IsSome(NameRefClass_classify(Ctx).out)
                   /\ NameRefClass_classify(Ctx).out.val.cls = "FieldShorthand"

C1_Witness ==
    /\ op = "from_token"
    /\ Len(out) = 2
    /\ ClassifiedNode.kind = "Name"

\* C2 as claimed: an identifier anywhere inside a derive attribute's argument
\* list is resolved by the derive-input resolver alone, from_node and the
\* classifiers are never invoked.
C2_Original ==
    (op = "from_token" /\ Tok.hasParent /\ Tok.isIdent /\ InDeriveArgs(Tok)) =>
        /\ calls \cap ({"from_node"} \cup Classifiers) = {}
        /\ out = ResolverYield(Tok)

\* C2 as amended: an identifier whose parent token tree is itself the argument
\* list of a derive attribute is resolved by the derive-input resolver alone
\* (zero or one Definition, no from_node, no classifier, also when the
\* resolver finds nothing); an identifier of a token tree nested deeper in
\* that argument list goes to from_node on its parent token tree, which yields
\* the empty sequence without invoking a classifier or the resolver.
C2_Amended ==
    (op = "from_token" /\ Tok.hasParent /\ Tok.isIdent /\ InDeriveArgs(Tok)) =>
        IF DirectlyInAttrArgs(Tok)
        THEN /\ calls = {"try_resolve_derive_input"}
             /\ out = ResolverYield(Tok)
             /\ Len(out) <= 1
        ELSE /\ calls = {"from_node"}
             /\ out = <<>>

C2_Witness ==
    /\ op = "from_token"
    /\ Tok.isIdent
    /\ InDeriveArgs(Tok)
    /\ DirectlyInAttrArgs(Tok)
    /\ ~IsSome(Tok.deriveRes)
    /\ out = <<>>

-----------------------------------------------------------------------------
\* The Definition variant the documentation gives each declaration kind.
C3_Variant(parent) ==
    IF parent = "SelfParam" THEN "Local"
    ELSE IF parent = "RecordField" THEN "Field"
    ELSE IF parent \in {"Struct", "Union", "Enum"} THEN "Adt"
    ELSE IF parent = "Fn" THEN "Function"
    ELSE IF parent \in {"TypeParam", "ConstParam"} THEN "GenericParam"
    ELSE parent

\* C3: NameClass::classify on a name whose parent is a declaration kind with
\* a to_def rule returns Definition of the matching variant around the handle
\* looked up, none when the lookup fails, and none for a parent kind without
\* any rule.
C3_Declarations ==
    (op = "NameClass::classify" /\ Ctx.hasParent) =>
        /\ Ctx.parent \in ToDefParents =>
             IF IsSome(Ctx.toDef)
             THEN /\ IsSome(out)
                  /\ out.val.cls = "Definition"
                  /\ out.val.def.tag = C3_Variant(Ctx.parent)
                  /\ out.val.def.id = Ctx.toDef.val
                  /\ out.val.def.tag = "Adt" => out.val.def.sub = Ctx.parent
                  /\ out.val.def.tag = "GenericParam" => out.val.def.sub = Ctx.parent
             ELSE out = None
        /\ Ctx.parent \notin ToDefParents \cup {"IdentPat", "Rename"} => out = None

C3_Witness ==
    /\ op = "NameClass::classify"
    /\ Ctx.parent = "Union"
    /\ IsSome(out)
    /\ out.val.def.tag = "Adt"

-----------------------------------------------------------------------------
\* The pattern is a record-pattern field written without its field name, and
\* that field resolves.
C4_Shorthand == Ctx.inRecordPatField /\ ~Ctx.rpfHasNameRef /\ IsSome(Ctx.patField)

\* C4 as claimed: constant first, then the shorthand, otherwise always
\* Definition(Local).
C4_Original ==
    (op = "NameClass::classify" /\ Ctx.hasParent /\ Ctx.parent = "IdentPat") =>
        IF IsSome(Ctx.constRes)
        THEN out = Some(NCConstReference(DefinitionFromModuleDef(Ctx.constRes.val)))
        ELSE IF C4_Shorthand
        THEN IsSome(out) /\ out.val.cls = "PatFieldShorthand"
        ELSE IsSome(out) /\ out.val.cls = "Definition" /\ out.val.def.tag = "Local"

\* C4 as amended: constant first (ConstReference, whatever the other lookups
\* return); otherwise none when the lookup of the pattern's local fails;
\* otherwise PatFieldShorthand of that local and the field when the pattern is
\* a record-pattern field without field name that resolves; otherwise
\* Definition(Local) of that local.
C4_Amended ==
    (op = "NameClass::classify" /\ Ctx.hasParent /\ Ctx.parent = "IdentPat") =>
        IF IsSome(Ctx.constRes)
        THEN /\ IsSome(out)
             /\ out.val.cls = "ConstReference"
             /\ out.val.def.tag = Ctx.constRes.val.md
             /\ out.val.def.id = Ctx.constRes.val.id
        ELSE IF ~IsSome(Ctx.toDef)
        THEN out = None
        ELSE IF C4_Shorthand
        THEN out = Some([cls |-> "PatFieldShorthand", local_def |-> Ctx.toDef.val,
                         field_ref |-> Ctx.patField.val])
        ELSE out = Some([cls |-> "Definition",
                         def |-> [tag |-> "Local", sub |-> "", id |-> Ctx.toDef.val]])

C4_Witness ==
    /\ op = "NameClass::classify"
    /\ Ctx.parent = "IdentPat"
    /\ ~IsSome(Ctx.constRes)
    /\ C4_Shorthand
    /\ IsSome(out)
    /\ out.val.cls = "PatFieldShorthand"

-----------------------------------------------------------------------------
\* The name-ref is the field name of a record-construction field that resolves.
C5_Case ==
    /\ ClassifiedNode.kind = "NameRef"
    /\ Ctx.hasParent
    /\ Ctx.forFieldName
    /\ IsSome(Ctx.recField)

\* C5: for such a name-ref NameRefClass::classify returns FieldShorthand of
\* the local and the field exactly when the resolver reports a local, and
\* Definition(Field) exactly when it reports none; from_node yields
\* <<Local, Field>> in the first case and <<Field>> in the second.
C5_RecordField ==
    /\ (op = "NameRefClass::classify" /\ C5_Case) =>
         /\ IsSome(out)
         /\ out.val.cls = "FieldShorthand" <=> IsSome(Ctx.recField.val.local)
         /\ out.val.cls = "Definition" <=> ~IsSome(Ctx.recField.val.local)
         /\ out.val.cls = "FieldShorthand" =>
              /\ out.val.local_ref = Ctx.recField.val.local.val
              /\ out.val.field_ref = Ctx.recField.val.field
         /\ out.val.cls = "Definition" =>
              out.val.def = [tag |-> "Field", sub |-> "", id |-> Ctx.recField.val.field]
    /\ (op = "from_node" /\ C5_Case) =>
         out = IF IsSome(Ctx.recField.val.local)
               THEN <<[tag |-> "Local", sub |-> "", id |-> Ctx.recField.val.local.val],
                      [tag |-> "Field", sub |-> "", id |-> Ctx.recField.val.field]>>
               ELSE <<[tag |-> "Field", sub |-> "", id |-> Ctx.recField.val.field]>>

C5_Witness ==
    /\ op = "from_node"
    /\ C5_Case
    /\ IsSome(Ctx.recField.val.local)
    /\ Len(out) = 2

-----------------------------------------------------------------------------
\* The new name of `self as baz` in a use-tree list: the rename clause sits
\* in a use-tree whose path ends in `self`, and the use-tree owning the list
\* has a path whose last segment has a name-ref.
C6_Case ==
    /\ Ctx.hasParent
    /\ Ctx.parent = "Rename"
    /\ Ctx.renameParent = "UseTree"
    /\ Ctx.utPath /\ Ctx.utSegment /\ Ctx.utNameRef
    /\ Ctx.isSelf
    /\ Ctx.enclFound

\* C6: NameClass::classify of that name is Definition(d), d the Definition
\* NameRefClass::classify gives the last segment of the enclosing use-tree's
\* path (a FieldShorthand collapsed to its Field), and none exactly when that
\* classification is none.
C6_SelfRename ==
    (op = "NameClass::classify" /\ C6_Case) =>
        LET r == NameRefClass_classify(Ctx.enclNameRef).out
        IN /\ IsSome(out) <=> IsSome(r)
           /\ IsSome(r) =>
                /\ out.val.cls = "Definition"
                /\ r.val.cls = "Definition" => out.val.def = r.val.def
                /\ r.val.cls = "FieldShorthand" =>
                     out.val.def = [tag |-> "Field", sub |-> "", id |-> r.val.field_ref]

C6_Witness ==
    /\ op = "NameClass::classify"
    /\ C6_Case
    /\ IsSome(out)
    /\ IsSome(NameRefClass_classify(Ctx.nameRef).out)
    /\ out.val.def # NameRefClass_classify(Ctx.nameRef).out.val.def

-----------------------------------------------------------------------------
\* A name-ref that is a segment of a path, as the name-refs of
\* #[attr_mod::attr(arg_path::x)] are.
C7_Segment ==
    /\ op = "NameRefClass::classify"
    /\ Ctx.hasParent
    /\ Ctx.parent = "PathSegment"
    /\ ~Ctx.forFieldName
    /\ Ctx.hasPath

\* C7: a segment of a qualifier of the attribute's own path classifies to
\* Definition(Module) or none; the last segment of the attribute's own path to
\* Definition(Macro) of a macro of attribute kind or none; a segment of a path
\* in the attribute's arguments (no macro call's path) to none.
C7_AttributePaths ==
    /\ (C7_Segment /\ Ctx.attr = "own" /\ ~Ctx.isTop) =>
         /\ IsSome(out) =>
              /\ out.val.cls = "Definition"
              /\ out.val.def.tag = "Module"
         /\ IsSome(out) <=>
              /\ IsSome(Ctx.pathRes)
              /\ Ctx.pathRes.val.pr = "Def"
              /\ Ctx.pathRes.val.def.md = "Module"
    /\ (C7_Segment /\ Ctx.attr = "own" /\ Ctx.isTop) =>
         /\ IsSome(out) =>
              /\ out.val.cls = "Definition"
              /\ out.val.def.tag = "Macro"
              /\ out.val.def.id = Ctx.pathAsMacro.val
              /\ MacroKind(out.val.def.id) = "Attr"
         /\ IsSome(out) <=>
              /\ IsSome(Ctx.pathAsMacro)
              /\ MacroKind(Ctx.pathAsMacro.val) = "Attr"
    /\ (C7_Segment /\ Ctx.attr = "other" /\ ~Ctx.inMacroCall) => out = None

C7_Witness ==
    /\ C7_Segment
    /\ Ctx.attr = "own"
    /\ ~Ctx.isTop
    /\ IsSome(Ctx.pathRes)
    /\ Ctx.pathRes.val.pr = "Def"
    /\ Ctx.pathRes.val.def.md = "Trait"
    /\ out = None

-----------------------------------------------------------------------------
\* C8: on a lifetime NameClass::classify_lifetime returns Definition or none,
\* NameRefClass::classify_lifetime returns Definition or none, and from_node
\* yields at most one Definition, a GenericParam or a Label.
C8_Lifetimes ==
    /\ op = "NameClass::classify_lifetime" => (IsSome(out) => out.val.cls = "Definition")
    /\ op = "NameRefClass::classify_lifetime" => (IsSome(out) => out.val.cls = "Definition")
    /\ (op = "from_node" /\ ClassifiedNode.kind = "Lifetime") =>
         /\ Len(out) <= 1
         /\ \A i \in 1..Len(out) : out[i].tag \in {"GenericParam", "Label"}

C8_Witness ==
    /\ op = "from_node"
    /\ ClassifiedNode.kind = "Lifetime"
    /\ Ctx.parent = "BreakExpr"
    /\ Len(out) = 1
    /\ out[1].tag = "Label"

-----------------------------------------------------------------------------
\* C9: Definition::module is none for a BuiltinType, the module's parent for a
\* Module (none for a crate root), the module of the owning aggregate for a
\* Field, and some module for a Function, Adt, Variant, Const, Static, Trait,
\* TypeAlias, SelfType, Local, GenericParam and Label.
C9_Module ==
    op = "module" =>
        LET d == inp.d.def
            db == inp.d.db
        IN /\ d.tag = "BuiltinType" => out = None
           /\ d.tag = "Module" => out = db.moduleParent
           /\ d.tag = "Field" =>
                /\ IsSome(out)
                /\ out.val = db.variantDefModule[db.fieldParentDef.kind]
           /\ d.tag \in {"Function", "Adt", "Variant", "Const", "Static", "Trait",
                         "TypeAlias", "SelfType", "Local", "GenericParam", "Label"} =>
                IsSome(out)

C9_Witness ==
    /\ op = "module"
    /\ inp.d.def.tag = "Field"
    /\ IsSome(out)
    /\ out.val # inp.d.db.itModule
    /\ out.val # inp.d.def.id

-----------------------------------------------------------------------------
\* C10: a token without parent gives the empty sequence; a token that is not
\* an identifier inside a derive attribute's argument list (a token that is no
\* identifier, an identifier in the arguments of an attribute that is no
\* derive, in a macro call's token tree, or outside any token tree) gives
\* exactly from_node of its parent.
C10_Delegates ==
    op = "from_token" =>
        /\ ~Tok.hasParent => out = <<>>
        /\ (Tok.hasParent /\ ~(Tok.isIdent /\ InDeriveArgs(Tok))) =>
             out = Definition_from_node(Tok.parentNode).out

C10_Witness ==
    /\ op = "from_token"
    /\ Tok.isIdent
    /\ DirectlyInAttrArgs(Tok)
    /\ ~Tok.attrIsDerive
    /\ IsSome(Tok.deriveRes)
    /\ out = <<>>

-----------------------------------------------------------------------------
\* C11 as claimed: a name-ref whose parent is a method call, a field access
\* or a record-pattern field classifies to the outcome of that context
\* (Definition(Function), Definition(Field), Definition(Field)) or to none,
\* and to none whenever the resolution of that context fails.
C11_Claim ==
    (op = "NameRefClass::classify" /\ Ctx.hasParent) =>
        /\ Ctx.parent = "MethodCallExpr" =>
             out = IF IsSome(Ctx.method)
                   THEN Some([cls |-> "Definition",
                              def |-> [tag |-> "Function", sub |-> "", id |-> Ctx.method.val]])
                   ELSE None
        /\ Ctx.parent = "FieldExpr" =>
             out = IF IsSome(Ctx.field)
                   THEN Some([cls |-> "Definition",
                              def |-> [tag |-> "Field", sub |-> "", id |-> Ctx.field.val]])
                   ELSE None
        /\ Ctx.parent = "RecordPatField" =>
             out = IF IsSome(Ctx.patField)
                   THEN Some([cls |-> "Definition",
                              def |-> [tag |-> "Field", sub |-> "", id |-> Ctx.patField.val]])
                   ELSE None

-----------------------------------------------------------------------------
\* The name-ref gets to the path-shaped rule: it has a parent, none of the
\* rules 1 to 4 answers, it is no associated-type binding's name, and a path
\* is among its ancestors.
C12_PathShaped ==
    /\ op = "NameRefClass::classify"
    /\ Ctx.hasParent
    /\ ~(Ctx.parent = "MethodCallExpr" /\ IsSome(Ctx.method))
    /\ ~(Ctx.parent = "FieldExpr" /\ IsSome(Ctx.field))
    /\ ~(Ctx.forFieldName /\ IsSome(Ctx.recField))
    /\ ~(Ctx.parent = "RecordPatField" /\ IsSome(Ctx.patField))
    /\ ~(Ctx.parent = "AssocTypeArg" /\ Ctx.assocIsName)
    /\ Ctx.hasPath

\* The name-ref's path is unqualified and the path of a macro call that resolves.
C12_ResolvingMacroCall ==
    ~Ctx.qualified /\ Ctx.inMacroCall /\ IsSome(Ctx.macroCall)

\* C12 as claimed: a path-shaped name-ref whose top path lies inside an
\* attribute without being the attribute's path classifies to none, also when
\* its path is the unqualified path of a macro call that resolves.
C12_Original ==
    (C12_PathShaped /\ Ctx.attr = "other") => out = None

\* C12 as amended: such a name-ref classifies to none, except when its path is
\* unqualified and the path of a macro call that resolves: then it classifies
\* to Definition(Macro) of the macro called.
C12_Amended ==
    (C12_PathShaped /\ Ctx.attr = "other") =>
        IF C12_ResolvingMacroCall
        THEN out = Some([cls |-> "Definition",
                         def |-> [tag |-> "Macro", sub |-> "", id |-> Ctx.macroCall.val]])
        ELSE out = None

C12_Witness ==
    /\ C12_PathShaped
    /\ Ctx.attr = "other"
    /\ C12_ResolvingMacroCall
    /\ IsSome(out)
    /\ out.val.def.tag = "Macro"

-----------------------------------------------------------------------------
\* C13 as claimed: NameRefClass::classify_lifetime consults resolve_label only
\* under a break or continue, resolve_lifetime_param only under a lifetime
\* argument, self parameter, type bound, where-predicate or reference type or
\* under a lifetime-parameter declaration that declares another lifetime, and
\* for any other parent returns none without consulting a resolver.
C13_Claim ==
    (op = "NameRefClass::classify_lifetime" /\ Ctx.hasParent) =>
        LET labelled == Ctx.parent \in {"BreakExpr", "ContinueExpr"}
            parametric ==
                \/ Ctx.parent \in {"LifetimeArg", "SelfParam", "TypeBound", "WherePred",
                                   "RefType"}
                \/ Ctx.parent = "LifetimeParam" /\ ~Ctx.declared
        IN /\ "resolve_label" \in calls => labelled
           /\ "resolve_lifetime_param" \in calls => parametric
           /\ (~labelled /\ ~parametric) => (out = None /\ calls = {})

-----------------------------------------------------------------------------
\* The name-ref is the name of an associated-type binding.
C14_Case ==
    /\ op = "NameRefClass::classify"
    /\ Ctx.hasParent
    /\ Ctx.parent = "AssocTypeArg"
    /\ Ctx.assocIsName

\* The nearest ancestor path resolves to a trait.
C14_Trait ==
    /\ Ctx.hasPath
    /\ IsSome(Ctx.pathRes)
    /\ Ctx.pathRes.val.pr = "Def"
    /\ Ctx.pathRes.val.def.md = "Trait"

\* Item i of the trait is a type alias named as the name-ref.
C14_Matches(i) ==
    Ctx.traitItems[i].ai = "TypeAlias" /\ Ctx.traitItems[i].name = Ctx.text

\* C14: the name of an associated-type binding classifies to
\* Definition(TypeAlias(t)) only if the nearest ancestor path resolves to a
\* trait and t is the first type alias of that trait's own items named as the
\* name-ref; otherwise (no path, path unresolved, no trait, no such alias) to
\* none, and no later rule is tried.
C14_AssocType ==
    C14_Case =>
        /\ IsSome(out) =>
             /\ C14_Trait
             /\ out.val.cls = "Definition"
             /\ out.val.def.tag = "TypeAlias"
             /\ \E i \in 1..Len(Ctx.traitItems) :
                  /\ C14_Matches(i)
                  /\ out.val.def.id = Ctx.traitItems[i].id
                  /\ \A j \in 1..(i - 1) : ~C14_Matches(j)
        /\ (C14_Trait /\ \E i \in 1..Len(Ctx.traitItems) : C14_Matches(i)) => IsSome(out)
        /\ calls \cap {"resolve_macro_call", "resolve_path_as_macro",
                       "resolve_extern_crate"} = {}

C14_Witness ==
    /\ C14_Case
    /\ Len(Ctx.traitItems) = 2
    /\ C14_Matches(1)
    /\ C14_Matches(2)
    /\ Ctx.traitItems[1].id # Ctx.traitItems[2].id
    /\ IsSome(out)
    /\ out.val.def.id = Ctx.traitItems[1].id

-----------------------------------------------------------------------------
\* At most one classification call is nested in another: it is the call of
\* NameRefClass::classify made by NameClass::classify, on a node that is not
\* the one being classified; NameRefClass::classify calls no classifier.  A
\* call that has returned has the result of the classifier.
C15_Bounded ==
    /\ Len(stack) <= 2
    /\ nested <= 1
    /\ Len(stack) = 2 =>
         /\ stack[1].fn = "NameClass::classify"
         /\ stack[1].pc = "wait"
         /\ stack[2].fn = "NameRefClass::classify"
         /\ stack[2].ctx # stack[1].ctx
         /\ nested = 1
    /\ (stack # <<>> /\ Top.fn = "NameRefClass::classify") => Top.pc = "start"
    /\ (stack = <<>> /\ op = "NameRefClass::classify") =>
         (nested = 0 /\ out = NameRefClass_classify(inp.node.ctx).out)
    /\ (stack = <<>> /\ op = "NameClass::classify") =>
         /\ nested = (IF ReachesNestedCall(inp.node.ctx) THEN 1 ELSE 0)
         /\ out = NameClass_classify(inp.node.ctx).out

\* C15: every call of NameClass::classify and of NameRefClass::classify
\* returns, with at most one nested classification call, made by the rename
\* case on a name-ref that is not the classified name; no classification call
\* comes back to a node being classified.
C15_Terminates ==
    /\ []C15_Bounded
    /\ (stack # <<>>) ~> (stack = <<>> /\ op \in Classifiers)

C15_Witness ==
    /\ op = "NameClass::classify"
    /\ stack = <<>>
    /\ nested = 1
    /\ IsSome(out)
    /\ inp.node.ctx.isSelf
    /\ inp.node.ctx.enclFound

====
